---- MODULE Spec2Model ----
(***************************************************************************)
(* Model of the tokenloom streaming parser (src/src/parser/*.ts,           *)
(* src/src/segment.ts) and of the TokenLoom.feed / TokenLoom.flush entry   *)
(* points (src/src/tokenloom.ts).                                          *)
(*                                                                         *)
(* A string is a sequence of characters, each a TLA+ string.  The character *)
(* universe is ASCII letters, the space, the newline and the punctuation   *)
(* the parser looks at; on that universe \w, \p{L}\p{N}_ and the Unicode   *)
(* word-break classes used by Intl.Segmenter reduce to the classes below.  *)
(***************************************************************************)
EXTENDS Naturals, Integers, Sequences, FiniteSets, TLC

\* ------------------------------------------------------------------ bounds
MaxFeeds == 4
MaxFlushes == 1
\* feed calls, flush calls, next() calls, dispose calls and plugins of a TokenLoom
MaxLoomFeeds == 2
MaxLoomFlushes == 2
MaxNexts == 2
MaxDisposes == 1
MaxPlugins == 2

\* ------------------------------------------------------- character classes
LT == "<"
GT == ">"
SL == "/"
\* the backtick (SANY does not lex that character inside a string)
BT == "bt"
TL == "~"
NL == "\n"
SP == " "

Letters == {"a", "b", "j", "x"}
IsLetter(c) == c \in Letters
\* \w  and  [\p{L}\p{N}_]
IsWordChar(c) == c \in Letters \cup {"_"}
\* [a-zA-Z0-9_-]
IsNameChar(c) == c \in Letters \cup {"_", "-"}
\* \s
IsSpaceChar(c) == c \in {SP, NL}
IsFenceChar(c) == c \in {BT, TL}

\* ------------------------------------------------------------ string tools
Max(a, b) == IF a >= b THEN a ELSE b
Min(a, b) == IF a <= b THEN a ELSE b

\* s.slice(i) with a 0-based cut: drop the first n characters
Drop(s, n) == SubSeq(s, n + 1, Len(s))
\* s.slice(0, n)
Take(s, n) == SubSeq(s, 1, n)
\* c.repeat(n)
Repeat(c, n) == [i \in 1..n |-> c]

RECURSIVE Flatten(_)
Flatten(ss) == IF ss = <<>> THEN <<>> ELSE Head(ss) \o Flatten(Tail(ss))

\* 1-based position of the first occurrence of sub in s at or after from; 0 if none
IndexOfFrom(s, sub, from) ==
  LET hits == {i \in from..(Len(s) - Len(sub) + 1) : SubSeq(s, i, i + Len(sub) - 1) = sub}
  IN IF hits = {} THEN 0 ELSE CHOOSE i \in hits : \A j \in hits : i <= j
IndexOf(s, sub) == IndexOfFrom(s, sub, 1)

\* s.trim()
\* (variant that leaves the white space in place)
Trim_Identity(s) == s
Trim(s) ==
  LET keep == {i \in 1..Len(s) : ~IsSpaceChar(s[i])}
  IN IF keep = {} THEN <<>>
     ELSE SubSeq(s, CHOOSE i \in keep : \A j \in keep : i <= j,
                    CHOOSE i \in keep : \A j \in keep : i >= j)

\* ---------------------------------------------------------------- segment
\* Two adjacent characters stay in one piece:
\*   token    - both whitespace or both non-whitespace
\*   word     - Intl.Segmenter("en", word): word characters join, spaces join,
\*              a newline and every punctuation character stand alone
\*   grapheme - never
Joins(unit, c, d) ==
  CASE unit = "token" -> IsSpaceChar(c) = IsSpaceChar(d)
    [] unit = "word" -> (IsWordChar(c) /\ IsWordChar(d)) \/ (c = SP /\ d = SP)
    [] OTHER -> FALSE

RECURSIVE Pieces(_, _)
Pieces(s, unit) ==
  IF s = <<>> THEN <<>>
  ELSE LET r == Pieces(Tail(s), unit)
       IN IF r # <<>> /\ Joins(unit, Head(s), Head(r)[1])
          THEN << <<Head(s)>> \o Head(r) >> \o Tail(r)
          ELSE << <<Head(s)>> >> \o r

\* enhancedWordSegmentation: merge  //  /*  */  into one piece, left to right
RECURSIVE MergeCommentOps(_)
MergeCommentOps(segs) ==
  IF Len(segs) < 2 THEN segs
  ELSE LET cur == segs[1]
           nxt == segs[2]
       IN IF \/ (cur = <<SL>> /\ (nxt = <<SL>> \/ nxt = <<"*">>))
             \/ (cur = <<"*">> /\ nxt = <<SL>>)
          THEN <<cur \o nxt>> \o MergeCommentOps(Tail(Tail(segs)))
          ELSE <<cur>> \o MergeCommentOps(Tail(segs))

segment(s, unit) ==
  IF unit = "word" THEN MergeCommentOps(Pieces(s, unit)) ELSE Pieces(s, unit)

\* ------------------------------------------------------------------ utils
\* indexOfFenceOpen: leftmost match of (^|\n)[ ]{0,3}([BT TL]{1,}); the result is
\* the position of the first run character (1-based, 0 for -1)
FenceRunStartsAt(s, i) ==
  /\ IsFenceChar(s[i])
  /\ \E k \in 0..3 :
       /\ i - k >= 1
       /\ \A j \in (i - k)..(i - 1) : s[j] = SP
       /\ (i - k = 1 \/ s[i - k - 1] = NL)

indexOfFenceOpen(s) ==
  LET hits == {i \in 1..Len(s) : FenceRunStartsAt(s, i)}
  IN IF hits = {} THEN 0 ELSE CHOOSE i \in hits : \A j \in hits : i <= j

\* (variant that does not treat < as special)
findNextSpecialIndex_FenceOnly(buffer) == indexOfFenceOpen(buffer)
findNextSpecialIndex(buffer) ==
  LET lt == IndexOf(buffer, <<LT>>)
      fenceIdx == indexOfFenceOpen(buffer)
  IN IF lt = 0 THEN fenceIdx
     ELSE IF fenceIdx = 0 THEN lt
     ELSE Min(lt, fenceIdx)

\* the lookahead (?=\s*(?:\n|$)) holds right after position e
CloseLookahead(s, e) ==
  \E k \in e..Len(s) :
    /\ \A j \in (e + 1)..k : IsSpaceChar(s[j])
    /\ (k = Len(s) \/ s[k + 1] = NL)

FenceCloseAt(s, delim, i) ==
  /\ i + Len(delim) - 1 <= Len(s)
  /\ SubSeq(s, i, i + Len(delim) - 1) = delim
  /\ \E k \in 0..3 :
       /\ i - k >= 1
       /\ \A j \in (i - k)..(i - 1) : s[j] = SP
       /\ (i - k = 1 \/ s[i - k - 1] = NL)
  /\ CloseLookahead(s, i + Len(delim) - 1)

\* indexOfFenceClose: position of delim in the leftmost match (1-based, 0 for -1)
indexOfFenceClose(s, delim) ==
  LET hits == {i \in 1..Len(s) : FenceCloseAt(s, delim, i)}
  IN IF hits = {} THEN 0 ELSE CHOOSE i \in hits : \A j \in hits : i <= j

\* length matched by ^delim\s*(?:\n|$) on rest (rest starts with delim); 0 if no match
CloseLineLength(rest, delim) ==
  LET d == Len(delim)
      ends == {k \in d..Len(rest) :
                 /\ \A j \in (d + 1)..k : IsSpaceChar(rest[j])
                 /\ (k = Len(rest) \/ rest[k + 1] = NL)}
      \* \s* is greedy: the longest whitespace run that still leaves \n or the end
      k == CHOOSE x \in ends : \A y \in ends : x >= y
  IN IF Take(rest, d) # delim \/ ends = {} THEN 0
     ELSE IF k = Len(rest) THEN k ELSE k + 1

\* parseAttrs: /(\w+)=(["'])(.*?)\2/g, keys collide last-write-wins
Quotes == {"\"", "'"}
AttrMatchAt(s, p) ==
  /\ IsWordChar(s[p])
  /\ \E e \in p..Len(s) :
       /\ \A j \in p..e : IsWordChar(s[j])
       /\ e + 2 <= Len(s)
       /\ s[e + 1] = "="
       /\ s[e + 2] \in Quotes
       /\ \E q \in (e + 3)..Len(s) :
            /\ s[q] = s[e + 2]
            /\ \A j \in (e + 3)..(q - 1) : s[j] # NL

AttrKeyEnd(s, p) == CHOOSE e \in p..Len(s) :
  /\ \A j \in p..e : IsWordChar(s[j])
  /\ s[e + 1] = "="
AttrValEnd(s, e) == CHOOSE q \in (e + 3)..Len(s) :
  /\ s[q] = s[e + 2]
  /\ \A j \in (e + 3)..(q - 1) : s[j] # s[e + 2]

SetAttr(attrs, k, v) ==
  IF \E i \in 1..Len(attrs) : attrs[i].k = k
  THEN [i \in 1..Len(attrs) |-> IF attrs[i].k = k THEN [k |-> k, v |-> v] ELSE attrs[i]]
  ELSE Append(attrs, [k |-> k, v |-> v])

RECURSIVE ParseAttrsFrom(_, _, _)
ParseAttrsFrom(s, p, attrs) ==
  IF p > Len(s) THEN attrs
  ELSE IF AttrMatchAt(s, p)
       THEN LET e == AttrKeyEnd(s, p)
                q == AttrValEnd(s, e)
            IN ParseAttrsFrom(s, q + 1,
                 SetAttr(attrs, SubSeq(s, p, e), SubSeq(s, e + 3, q - 1)))
       ELSE ParseAttrsFrom(s, p + 1, attrs)

parseAttrs(s) == ParseAttrsFrom(s, 1, <<>>)

\* serializeTag: name k="v" ...>
RECURSIVE JoinAttrs(_)
JoinAttrs(attrs) ==
  IF attrs = <<>> THEN <<>>
  ELSE attrs[1].k \o <<"=", "\"">> \o attrs[1].v \o <<"\"">>
       \o (IF Len(attrs) > 1 THEN <<SP>> ELSE <<>>) \o JoinAttrs(Tail(attrs))

serializeTag(t) ==
  IF t.attrs # <<>> THEN t.name \o <<SP>> \o JoinAttrs(t.attrs) \o <<GT>>
  ELSE t.name \o <<GT>>

\* ----------------------------------------------------------------- events
NoCtx == [inTag |-> <<>>, inCodeFence |-> <<>>]

\* raw is not a field of the program's events: it records the input characters a
\* structural event consumed, for the statements about what the parser consumes
Ev(type, ctx) ==
  [type |-> type, text |-> <<>>, name |-> <<>>, attrs |-> <<>>,
   fence |-> "", lang |-> <<>>, in |-> ctx, raw |-> <<>>]
TextEv(type, tok, ctx) == [Ev(type, ctx) EXCEPT !.text = tok]

\* one event of the given type per token, stamped with the context
TokEvents(type, tokens, ctx) == [i \in 1..Len(tokens) |-> TextEv(type, tokens[i], ctx)]

\* (variant that holds no word back)
pushTokens_NoHold(tokens, isFence, st, o) ==
  [st |-> IF isFence THEN [st EXCEPT !.fenceHold = <<>>] ELSE [st EXCEPT !.segHold = <<>>],
   ev |-> TokEvents(IF isFence THEN "code-fence-chunk" ELSE "text", tokens, st.context)]

\* pushSegmentedText: in word mode the last piece is held back when it ends in a
\* word character, otherwise the hold is cleared
pushTokens(tokens, isFence, st, o) ==
  LET n == Len(tokens)
      last == tokens[n]
      holdIt == o.emitUnit = "word" /\ n > 0 /\ IsWordChar(last[Len(last)])
      clearIt == o.emitUnit = "word" /\ n > 0 /\ ~holdIt
      out == IF holdIt THEN Take(tokens, n - 1) ELSE tokens
      st1 == IF holdIt
             THEN IF isFence THEN [st EXCEPT !.fenceHold = @ \o last]
                             ELSE [st EXCEPT !.segHold = @ \o last]
             ELSE IF clearIt
                  THEN IF isFence THEN [st EXCEPT !.fenceHold = <<>>]
                                  ELSE [st EXCEPT !.segHold = <<>>]
                  ELSE st
  IN [st |-> st1,
      ev |-> TokEvents(IF isFence THEN "code-fence-chunk" ELSE "text", out, st.context)]

pushSegmentedText(toSegment, isFence, st, o) ==
  pushTokens(segment(toSegment, o.emitUnit), isFence, st, o)

\* the result of a step: the state it leaves and the events it pushed
R(st, ev) == [st |-> st, ev |-> ev]

flushTextHold(st, o) ==
  IF st.textHold = <<>> /\ st.segHold = <<>> THEN R(st, <<>>)
  ELSE LET toSegment == st.segHold \o st.textHold
           Cleared(r) == R([r.st EXCEPT !.textHold = <<>>], r.ev)
       IN Cleared(pushSegmentedText(toSegment, FALSE, [st EXCEPT !.segHold = <<>>], o))

\* --------------------------------------------------------------- handlers

\* /^<([a-zA-Z][a-zA-Z0-9_-]*)([^>]*)>/ matches special
OpenMatches(special) ==
  /\ Len(special) >= 3
  /\ special[1] = LT
  /\ IsLetter(special[2])
  /\ IndexOf(special, <<GT>>) # 0
\* last character of group 1: the name is the longest run of name characters
OpenNameEnd(special) ==
  CHOOSE e \in 2..Len(special) :
    /\ \A j \in 2..e : IsNameChar(special[j])
    /\ ~IsNameChar(special[e + 1])
\* /^<([a-zA-Z]|\/)\w*/
looksLikeTagStart(special) ==
  Len(special) >= 2 /\ special[1] = LT /\ (IsLetter(special[2]) \/ special[2] = SL)

\* this.opts.tags.includes(tag)
\* (variant that accepts every name)
IsCustomTag_Any(tag, o) == TRUE
IsCustomTag(tag, o) == tag \in o.tags

\* a waiting candidate is downgraded to text once it is specBufferLength long
\* (variant that downgrades at once)
WaitOrDowngrade_NeverWaits(st, o) ==
  [st |-> [st EXCEPT !.textHold = @ \o st.buffer, !.buffer = <<>>], ev |-> <<>>]
\* (variant that downgrades only past specBufferLength)
WaitOrDowngrade_Late(st, o) ==
  IF Len(st.buffer) > o.specBufferLength
  THEN R([st EXCEPT !.textHold = @ \o st.buffer, !.buffer = <<>>], <<>>)
  ELSE R(st, <<>>)
WaitOrDowngrade(st, o) ==
  IF Len(st.buffer) >= o.specBufferLength
  THEN R([st EXCEPT !.textHold = @ \o st.buffer, !.buffer = <<>>], <<>>)
  ELSE R(st, <<>>)

\* text-handler.ts 80-135: the buffer starts with a backtick or a tilde
TextFence(st, o) ==
  LET special == st.buffer
      fenceChar == special[1]
      others == {i \in 1..Len(special) : special[i] # fenceChar}
      runLen == IF others = {} THEN Len(special)
                ELSE (CHOOSE i \in others : \A j \in others : i <= j) - 1
      eolIdx == IndexOf(special, <<NL>>)
  IN IF runLen < 3
     THEN IF runLen = Len(special) THEN WaitOrDowngrade(st, o)
          ELSE R([st EXCEPT !.textHold = @ \o Take(special, runLen),
                            !.buffer = Drop(special, runLen)], <<>>)
     ELSE IF eolIdx = 0 THEN WaitOrDowngrade(st, o)
     ELSE LET Open(f, infoRaw) ==
                LET cf == [fence |-> fenceChar, lang |-> infoRaw, fenceLen |-> runLen]
                    ctx == [f.st.context EXCEPT
                              !.inCodeFence = <<[fence |-> fenceChar, lang |-> infoRaw]>>]
                    start == [Ev("code-fence-start", ctx) EXCEPT
                                !.fence = fenceChar, !.lang = infoRaw,
                                !.raw = Take(special, eolIdx)]
                IN R([f.st EXCEPT !.currentFence = <<cf>>, !.context = ctx,
                                  !.buffer = Drop(special, eolIdx), !.mode = "in-fence"],
                     f.ev \o <<start>>)
          IN Open(flushTextHold(st, o), Trim(SubSeq(special, runLen + 1, eolIdx - 1)))

\* text-handler.ts 45-74 and 136-162, once the buffer starts with the special
TextSpecial(st, o) ==
  LET special == st.buffer
      consumeOne == R([st EXCEPT !.textHold = @ \o <<special[1]>>,
                                 !.buffer = Tail(special)], <<>>)
  IN IF OpenMatches(special)
        /\ IsCustomTag(SubSeq(special, 2, OpenNameEnd(special)), o)
     THEN LET Open(f, nameEnd, endIdx) ==
                LET tag == SubSeq(special, 2, nameEnd)
                    Opened(attrs) ==
                      LET t == [name |-> tag, attrs |-> attrs]
                          ctx == [f.st.context EXCEPT !.inTag = <<t>>]
                          open == [Ev("tag-open", ctx) EXCEPT
                                     !.name = tag, !.attrs = attrs,
                                     !.raw = Take(special, endIdx)]
                      IN R([f.st EXCEPT !.currentTag = <<t>>, !.context = ctx,
                                        !.buffer = Drop(special, endIdx),
                                        !.mode = "in-tag"],
                           f.ev \o <<open>>)
                IN Opened(parseAttrs(SubSeq(special, nameEnd + 1, endIdx - 1)))
          IN Open(flushTextHold(st, o), OpenNameEnd(special), IndexOf(special, <<GT>>))
     ELSE IF IsFenceChar(special[1]) THEN TextFence(st, o)
     ELSE IF special[1] = LT
             /\ (\/ Len(special) = 1
                 \/ (looksLikeTagStart(special) /\ IndexOf(special, <<GT>>) = 0))
          THEN WaitOrDowngrade(st, o)
     ELSE consumeOne

\* (variant that, below specMinParseLength, copies the plain prefix to textHold
\* and leaves it in the buffer)
TextProcess_KeepsPrefix(st, o) ==
  LET At(idx) ==
        LET moved == [st EXCEPT !.textHold = @ \o Take(st.buffer, idx - 1),
                                !.buffer = Drop(st.buffer, idx - 1)]
            copied == [st EXCEPT !.textHold = @ \o Take(st.buffer, idx - 1)]
            allText == R([st EXCEPT !.textHold = @ \o st.buffer, !.buffer = <<>>], <<>>)
        IN IF Len(st.buffer) < o.specMinParseLength
           THEN IF idx = 1 THEN R(st, <<>>)
                ELSE IF idx = 0 THEN allText
                ELSE R(copied, <<>>)
           ELSE IF idx = 0 THEN allText
           ELSE TextSpecial(moved, o)
  IN At(findNextSpecialIndex(st.buffer))

\* TextHandler.process
TextProcess(st, o) ==
  LET At(idx) ==
        LET moved == [st EXCEPT !.textHold = @ \o Take(st.buffer, idx - 1),
                                !.buffer = Drop(st.buffer, idx - 1)]
            allText == R([st EXCEPT !.textHold = @ \o st.buffer, !.buffer = <<>>], <<>>)
        IN IF Len(st.buffer) < o.specMinParseLength
           THEN IF idx = 1 THEN R(st, <<>>)
                ELSE IF idx = 0 THEN allText
                ELSE R(moved, <<>>)
           ELSE IF idx = 0 THEN allText
           ELSE TextSpecial(moved, o)
  IN At(findNextSpecialIndex(st.buffer))

\* /^<\/name\s*>/ on rest: the length of the match, 0 if none
CloseTagLength(rest, name) ==
  LET m == <<LT, SL>> \o name
      n == Len(m)
      gts == {k \in (n + 1)..Len(rest) :
                rest[k] = GT /\ \A j \in (n + 1)..(k - 1) : IsSpaceChar(rest[j])}
  IN IF Take(rest, n) # m \/ gts = {} THEN 0 ELSE CHOOSE k \in gts : TRUE

\* TagHandler.process
TagProcess(st, o) ==
  IF st.currentTag = <<>> THEN R([st EXCEPT !.mode = "text"], <<>>)
  ELSE
  LET name == st.currentTag[1].name
      marker == <<LT, SL>> \o name
      idx == IndexOf(st.buffer, marker)
      retain == Max(Len(marker) - 1, 1)
      n == Len(st.buffer)
  IN IF idx = 0
     THEN IF n > retain
          THEN LET Kept(p) == R([p.st EXCEPT !.buffer = Drop(st.buffer, n - retain)], p.ev)
               IN Kept(pushSegmentedText(st.segHold \o Take(st.buffer, n - retain),
                                         FALSE, [st EXCEPT !.segHold = <<>>], o))
          ELSE R(st, <<>>)
     ELSE
     LET held == [st EXCEPT !.textHold = @ \o Take(st.buffer, idx - 1)]
         rest == Drop(st.buffer, idx - 1)
         mlen == CloseTagLength(rest, name)
     IN IF mlen = 0 THEN R([held EXCEPT !.buffer = rest], <<>>)
        ELSE
        LET toSegment == held.segHold \o held.textHold
            ev == IF held.textHold # <<>> \/ held.segHold # <<>>
                  THEN TokEvents("text", segment(toSegment, o.emitUnit), held.context)
                  ELSE <<>>
            close == [Ev("tag-close", held.context) EXCEPT !.name = name,
                                                         !.raw = Take(rest, mlen)]
        IN R([held EXCEPT !.segHold = <<>>, !.textHold = <<>>,
                          !.buffer = Drop(rest, mlen),
                          !.context = [@ EXCEPT !.inTag = <<>>],
                          !.currentTag = <<>>, !.mode = "text"],
             ev \o <<close>>)

\* (variant that keeps twice the tail)
FenceRetain_Double(o, delim) == 2 * Max(o.specMinParseLength - 1, Len(delim))
\* the tail of the buffer kept while no closing line is in it
FenceRetain(o, delim) == Max(o.specMinParseLength - 1, Len(delim))

\* FenceHandler.process
FenceProcess(st, o) ==
  IF st.currentFence = <<>> THEN R([st EXCEPT !.mode = "text"], <<>>)
  ELSE IF Len(st.buffer) < o.specMinParseLength THEN R(st, <<>>)
  ELSE
  LET cf == st.currentFence[1]
      delim == Repeat(cf.fence, cf.fenceLen)
      retain == FenceRetain(o, delim)
      n == Len(st.buffer)
      At(idx) ==
        IF idx = 0
          THEN IF n > retain
               THEN LET Kept(p) == R([p.st EXCEPT !.buffer = Drop(st.buffer, n - retain)], p.ev)
                    IN Kept(pushSegmentedText(st.fenceHold \o Take(st.buffer, n - retain),
                                              TRUE, [st EXCEPT !.fenceHold = <<>>], o))
               ELSE R(st, <<>>)
          ELSE
          LET rest == Drop(st.buffer, idx - 1)
              Closed(p1, p2, consume) ==
                LET end == [Ev("code-fence-end", p2.st.context) EXCEPT
                              !.raw = Take(rest, consume)]
                IN R([p2.st EXCEPT !.fenceHold = <<>>,
                                   !.buffer = Drop(rest, consume),
                                   !.context = [@ EXCEPT !.inCodeFence = <<>>],
                                   !.currentFence = <<>>, !.mode = "text"],
                     p1.ev \o p2.ev \o <<end>>)
              \* the held piece of fence content, pushed before the end event
              Held(p1, m) ==
                Closed(p1,
                       IF p1.st.fenceHold # <<>>
                       THEN pushSegmentedText(p1.st.fenceHold, TRUE, p1.st, o)
                       ELSE R(p1.st, <<>>),
                       IF m # 0 THEN m ELSE Len(delim))
          IN Held(IF idx > 1
                  THEN pushSegmentedText(st.fenceHold \o Take(st.buffer, idx - 1),
                                         TRUE, [st EXCEPT !.fenceHold = <<>>], o)
                  ELSE R(st, <<>>),
                  CloseLineLength(rest, delim))
  IN At(indexOfFenceClose(st.buffer, delim))

\* ------------------------------------------------------------ parser core
\* StreamingParser constructor: the state after construction
InitState ==
  [context |-> NoCtx, mode |-> "text", buffer |-> <<>>, textHold |-> <<>>,
   segHold |-> <<>>, fenceHold |-> <<>>, currentTag |-> <<>>, currentFence |-> <<>>]

\* the switch on mode (variant without the in-tag case first)
Handler_NoTagCase(st, o) ==
  CASE st.mode = "in-fence" -> FenceProcess(st, o)
    [] OTHER -> TextProcess(st, o)
Handler(st, o) ==
  CASE st.mode = "text" -> TextProcess(st, o)
    [] st.mode = "in-tag" -> TagProcess(st, o)
    [] OTHER -> FenceProcess(st, o)

\* (variant without the forced release of textHold)
LoopIter_NoRelease(st, o) ==
  LET Handled(r) == [st |-> r.st, ev |-> r.ev, brk |-> Len(r.st.buffer) = Len(st.buffer)]
  IN Handled(Handler(st, o))

\* (variant without the no-progress break)
LoopIter_NoBreak(st, o) ==
  LET Released(r, f) == [st |-> f.st, ev |-> r.ev \o f.ev, brk |-> FALSE]
      Checked(r) ==
        Released(r, IF Len(r.st.textHold) >= o.bufferLength
                    THEN flushTextHold(r.st, o) ELSE R(r.st, <<>>))
  IN Checked(Handler(st, o))

\* one iteration of the while loop of feedText: the handler, the no-progress
\* break, the forced release of textHold at bufferLength
LoopIter(st, o) ==
  LET Released(r, brk, f) == [st |-> f.st, ev |-> r.ev \o f.ev, brk |-> brk]
      Checked(r, brk) ==
        Released(r, brk,
                 IF ~brk /\ Len(r.st.textHold) >= o.bufferLength
                 THEN flushTextHold(r.st, o) ELSE R(r.st, <<>>))
      Handled(r) == Checked(r, Len(r.st.buffer) = Len(st.buffer))
  IN Handled(Handler(st, o))

\* feedText after the loop: release held text when the buffer is empty, except
\* inside a fence
FeedTail(st, o) ==
  IF st.buffer = <<>> /\ st.textHold # <<>> /\ st.mode # "in-fence"
  THEN flushTextHold(st, o) ELSE R(st, <<>>)

\* StreamingParser.flush
\* in-tag branch (variant that keeps currentTag first)
FlushInTag_KeepsTag(st) ==
  IF st.mode = "in-tag"
  THEN [st EXCEPT !.textHold = @ \o <<LT>> \o serializeTag(st.currentTag[1]),
                  !.mode = "text"]
  ELSE st
\* (variant that does not put the opening markup back)
FlushInTag_NoMarkup(st) ==
  IF st.mode = "in-tag"
  THEN [st EXCEPT !.mode = "text", !.currentTag = <<>>]
  ELSE st
FlushInTag(st) ==
  IF st.mode = "in-tag"
  THEN [st EXCEPT !.textHold = @ \o <<LT>> \o serializeTag(st.currentTag[1]),
                  !.mode = "text", !.currentTag = <<>>]
  ELSE st

\* in-fence branch (variant that pushes no code-fence-end first)
FlushInFence_NoEnd(st, o) ==
  IF st.mode = "in-fence"
  THEN [st |-> [st EXCEPT !.fenceHold = <<>>, !.textHold = <<>>,
                          !.context = [@ EXCEPT !.inCodeFence = <<>>],
                          !.mode = "text", !.currentFence = <<>>],
        ev |-> IF st.textHold # <<>> \/ st.fenceHold # <<>>
               THEN TokEvents("code-fence-chunk",
                              segment(st.fenceHold \o st.textHold, o.emitUnit),
                              st.context)
               ELSE <<>>]
  ELSE [st |-> st, ev |-> <<>>]
FlushInFence(st, o) ==
  IF st.mode = "in-fence"
  THEN LET ev == IF st.textHold # <<>> \/ st.fenceHold # <<>>
                 THEN TokEvents("code-fence-chunk",
                                segment(st.fenceHold \o st.textHold, o.emitUnit),
                                st.context)
                 ELSE <<>>
           st1 == IF st.textHold # <<>> \/ st.fenceHold # <<>>
                  THEN [st EXCEPT !.fenceHold = <<>>, !.textHold = <<>>] ELSE st
       IN R([st1 EXCEPT !.context = [@ EXCEPT !.inCodeFence = <<>>],
                        !.mode = "text", !.currentFence = <<>>],
            ev \o <<Ev("code-fence-end", st.context)>>)
  ELSE R(st, <<>>)

\* (variant whose fence branch pushes code-fence-end in every mode)
flush_AlwaysFenceEnd(st, o) ==
  LET s1 == [st EXCEPT !.textHold = @ \o st.buffer, !.buffer = <<>>]
      Done(f3, f4) ==
        R(f4.st, f3.ev
                 \o (IF st.mode = "in-fence" THEN <<>> ELSE <<Ev("code-fence-end", st.context)>>)
                 \o f4.ev \o <<Ev("flush", NoCtx)>>)
      Rest(f3) ==
        Done(f3, IF f3.st.textHold # <<>> THEN flushTextHold(f3.st, o) ELSE R(f3.st, <<>>))
  IN Rest(FlushInFence(FlushInTag(s1), o))
\* (variant without the final flushTextHold)
flush_NoFinalText(st, o) ==
  LET s1 == [st EXCEPT !.textHold = @ \o st.buffer, !.buffer = <<>>]
      Done(f3) == R(f3.st, f3.ev \o <<Ev("flush", NoCtx)>>)
  IN Done(FlushInFence(FlushInTag(s1), o))
flush(st, o) ==
  LET s1 == [st EXCEPT !.textHold = @ \o st.buffer, !.buffer = <<>>]
      Done(f3, f4) == R(f4.st, f3.ev \o f4.ev \o <<Ev("flush", NoCtx)>>)
      Rest(f3) ==
        Done(f3, IF f3.st.textHold # <<>> THEN flushTextHold(f3.st, o) ELSE R(f3.st, <<>>))
  IN Rest(FlushInFence(FlushInTag(s1), o))

\* ------------------------------------------------- whole calls, as operators
\* feedText as one function: the while loop run to its exit, then the tail
RECURSIVE FeedLoop(_, _, _)
FeedLoop(st, o, ev) ==
  IF st.buffer = <<>> THEN R(st, ev)
  ELSE LET Continue(r) ==
             IF r.brk THEN R(r.st, ev \o r.ev) ELSE FeedLoop(r.st, o, ev \o r.ev)
       IN Continue(LoopIter(st, o))

feedText(st, o, chunk) ==
  LET Tail2(l, t) == R(t.st, l.ev \o t.ev)
      Looped(l) == Tail2(l, FeedTail(l.st, o))
  IN Looped(FeedLoop([st EXCEPT !.buffer = @ \o chunk], o, <<>>))

\* the events of a fresh parser fed s as one chunk and flushed
RunWhole(s, o) ==
  LET Ended(f, g) == f.ev \o g.ev \o <<Ev("end", NoCtx)>>
      Fed(f) == Ended(f, flush(f.st, o))
  IN Fed(feedText(InitState, o, s))

\* ------------------------------------------------------------- event bus
\* An event on its way to the subscribers: n is the position of the event in
\* the parser's output (0 for end and buffer-released, which TokenLoom makes),
\* trail lists the plugin stages that have replaced it, as <<plugin, stage, part>>.
LoomEvent(n, type) == [n |-> n, type |-> type, trail |-> <<>>]

\* The stage functions a plugin may have (user code), by what they do to an
\* event: "none" (the stage is not defined), "mark" (returns one changed
\* event), "drop" (returns null), "split" (returns an array of two events),
\* "throw" (throws), "markThenThrow" (returns a changed event for the first
\* event of the list and throws on a second one).
\* A plugin is <<preTransform, transform, postTransform>>.
PluginKinds ==
  {<<"mark", "mark", "mark">>, <<"none", "drop", "none">>, <<"split", "none", "mark">>,
   <<"throw", "mark", "none">>, <<"none", "markThenThrow", "mark">>}

Marked(e, p, s, part) == [e EXCEPT !.trail = Append(@, <<p, s, part>>)]

\* (variant in which a stage that returns null leaves the event in the list)
RunPlugin_NullKeeps(list, kind, p, s) ==
  CASE kind \in {"none", "drop"} -> [events |-> list, ran |-> kind = "drop", threw |-> FALSE]
    [] kind = "mark" ->
         [events |-> [i \in 1..Len(list) |-> Marked(list[i], p, s, 0)],
          ran |-> TRUE, threw |-> FALSE]
    [] kind = "split" ->
         [events |-> [i \in 1..(2 * Len(list)) |->
                        Marked(list[(i + 1) \div 2], p, s, 2 - (i % 2))],
          ran |-> TRUE, threw |-> FALSE]
    [] kind = "throw" ->
         IF list = <<>> THEN [events |-> <<>>, ran |-> TRUE, threw |-> FALSE]
         ELSE [events |-> <<>>, ran |-> TRUE, threw |-> TRUE]
    [] kind = "markThenThrow" ->
         IF Len(list) >= 2
         THEN [events |-> <<Marked(list[1], p, s, 0)>>, ran |-> TRUE, threw |-> TRUE]
         ELSE [events |-> [i \in 1..Len(list) |-> Marked(list[i], p, s, 0)],
               ran |-> TRUE, threw |-> FALSE]

\* events.ts 107-119 (and 132-144, 157-169): one plugin's stage over the list:
\* newEvents as far as it got, and whether the stage threw
RunPlugin(list, kind, p, s) ==
  CASE kind = "none" -> [events |-> list, ran |-> FALSE, threw |-> FALSE]
    [] kind = "mark" ->
         [events |-> [i \in 1..Len(list) |-> Marked(list[i], p, s, 0)],
          ran |-> TRUE, threw |-> FALSE]
    [] kind = "drop" -> [events |-> <<>>, ran |-> TRUE, threw |-> FALSE]
    [] kind = "split" ->
         [events |-> [i \in 1..(2 * Len(list)) |->
                        Marked(list[(i + 1) \div 2], p, s, 2 - (i % 2))],
          ran |-> TRUE, threw |-> FALSE]
    [] kind = "throw" ->
         IF list = <<>> THEN [events |-> <<>>, ran |-> TRUE, threw |-> FALSE]
         ELSE [events |-> <<>>, ran |-> TRUE, threw |-> TRUE]
    [] kind = "markThenThrow" ->
         IF Len(list) >= 2
         THEN [events |-> <<Marked(list[1], p, s, 0)>>, ran |-> TRUE, threw |-> TRUE]
         ELSE [events |-> [i \in 1..Len(list) |-> Marked(list[i], p, s, 0)],
               ran |-> TRUE, threw |-> FALSE]

\* the k-th plugin stage that transformEvent runs, of n plugins: the three
\* phases in turn, each over the plugins in registration order
\* (variant that runs the three stages of a plugin before the next plugin)
StageAt_PluginMajor(k, n) == [p |-> ((k - 1) \div 3) + 1, s |-> ((k - 1) % 3) + 1]
StageAt(k, n) == [p |-> ((k - 1) % n) + 1, s |-> ((k - 1) \div n) + 1]

\* (variant that keeps what the stage had produced when it threw)
AfterPlugin_KeepsPartial(list, r) == r.events
\* events.ts 120-126: events = newEvents unless the stage threw
AfterPlugin(list, r) == IF r.threw THEN list ELSE r.events

\* EventBus.transformEvent: the list after stages k..3n, with the log of the
\* stages that ran (<<emission, plugin, stage, "ok" or "throw", length of the
\* list the stage was given>>)
RECURSIVE RunStages(_, _, _, _, _)
RunStages(listeners, list, k, m, calls) ==
  IF k > 3 * Len(listeners) THEN [events |-> list, calls |-> calls]
  ELSE LET Ran(at, r) ==
             RunStages(listeners, AfterPlugin(list, r), k + 1, m,
                       IF r.ran
                       THEN Append(calls, <<m, at.p, at.s,
                                            IF r.threw THEN "throw" ELSE "ok", Len(list)>>)
                       ELSE calls)
           At(at) == Ran(at, RunPlugin(list, listeners[at.p][at.s], at.p, at.s))
       IN At(StageAt(k, Len(listeners)))

transformEvent(listeners, e, m) == RunStages(listeners, <<e>>, 1, m, <<>>)

\* -------------------------------------------------------------- TokenLoom
\* The fields of a TokenLoom besides its parser. listeners is the bus's plugin
\* list. A subscriber (on "*") records what it is given in delivered; when
\* reactOn is an event type, it calls feed(ReactChunk) from inside its handler
\* the first time it is given an event of that type. flushPromises holds the
\* pending flush promises and waitingResolvers the pending next() calls, by
\* number; resolved and results record how they were settled. timers counts
\* the setTimeout callbacks not yet run, ticks those that have run.
LoomInit(delay, suppress, reactOn) ==
  [emitDelay |-> delay, suppressPluginErrors |-> suppress,
   reactOn |-> reactOn, reacts |-> IF reactOn = "none" THEN 0 ELSE 1,
   listeners |-> <<>>,
   delayQueue |-> <<>>, isProcessingDelay |-> FALSE,
   flushPromises |-> <<>>, resolved |-> {}, timers |-> 0, ticks |-> 0,
   eventQueue |-> <<>>, waitingResolvers |-> <<>>, results |-> <<>>,
   delivered |-> <<>>, nemit |-> 0, calls |-> <<>>, warned |-> 0,
   discarded |-> {}, disposes |-> 0, nexts |-> 0]

ReactChunk == <<"x">>

\* a TokenLoom with its parser: l the fields above, st the parser state, ev the
\* events the parser has returned so far, input what it has been fed
World(l, s, evs, inp) == [l |-> l, st |-> s, ev |-> evs, input |-> inp]

Throws(calls) == Cardinality({i \in 1..Len(calls) : calls[i][4] = "throw"})

\* Each function of TokenLoom below gives the state it leaves and the calls it
\* makes, in order, as <<function, argument>>; Run executes them depth first,
\* as the call stack does. A function that goes on after a call it made has
\* its remainder as a function of its own (":after").
Does(w, calls) == [w |-> w, next |-> calls]

\* TokenLoom.feed
feed(w, o, c) ==
  LET Fed(r) == Does([w EXCEPT !.st = r.st, !.ev = @ \o r.ev, !.input = @ \o c],
                     <<<<"dispatch", [i \in 1..Len(r.ev) |->
                                        LoomEvent(Len(w.ev) + i, r.ev[i].type)]>>>>)
  IN Fed(feedText(w.st, o, c))

\* dispatch
dispatch(w, list) ==
  IF w.l.emitDelay <= 0 THEN Does(w, <<<<"dispatchEventsSync", list>>>>)
  ELSE Does([w EXCEPT !.l.delayQueue = @ \o list], <<<<"startDelayedProcessing", 0>>>>)

\* dispatchEventsSync
dispatchEventsSync(w, list) ==
  Does(w, [i \in 1..Len(list) |-> <<"emitSingleEvent", list[i]>>]
          \o <<<<"checkForBufferRelease", 0>>>>)

\* startDelayedProcessing
startDelayedProcessing(w) ==
  IF w.l.isProcessingDelay THEN Does(w, <<>>)
  ELSE Does([w EXCEPT !.l.isProcessingDelay = TRUE], <<<<"processNextDelayedEvent", 0>>>>)

\* processNextDelayedEvent, up to emitSingleEvent(event)
processNextDelayedEvent(w) ==
  IF w.l.delayQueue = <<>>
  THEN Does([w EXCEPT !.l.isProcessingDelay = FALSE], <<<<"checkForFlushCompletion", 0>>>>)
  ELSE Does([w EXCEPT !.l.delayQueue = Tail(@)],
            <<<<"emitSingleEvent", Head(w.l.delayQueue)>>,
              <<"processNextDelayedEvent:after", 0>>>>)
\* processNextDelayedEvent, after it: setTimeout adds a timer
processNextDelayedEventAfter(w) ==
  IF w.l.delayQueue # <<>> THEN Does([w EXCEPT !.l.timers = @ + 1], <<>>)
  ELSE Does([w EXCEPT !.l.isProcessingDelay = FALSE], <<<<"checkForFlushCompletion", 0>>>>)

\* checkForFlushCompletion
checkForFlushCompletion(w) ==
  IF w.l.flushPromises # <<>> /\ w.l.delayQueue = <<>> /\ ~w.l.isProcessingDelay
  THEN Does(w, <<<<"emitSingleEvent", LoomEvent(0, "end")>>,
                 <<"checkForFlushCompletion:after", 0>>,
                 <<"checkForBufferRelease", 0>>>>)
  ELSE Does(w, <<<<"checkForBufferRelease", 0>>>>)
\* the while loop that resolves the pending flush promises
checkForFlushCompletionAfter(w) ==
  Does([w EXCEPT !.l.resolved = @ \cup {w.l.flushPromises[i] :
                                          i \in 1..Len(w.l.flushPromises)},
                 !.l.flushPromises = <<>>], <<>>)

\* checkForBufferRelease (no once listeners are registered)
checkForBufferRelease(w) ==
  IF w.l.delayQueue = <<>> /\ ~w.l.isProcessingDelay
  THEN Does(w, <<<<"emitSingleEvent", LoomEvent(0, "buffer-released")>>>>)
  ELSE Does(w, <<>>)

\* emitSingleEvent: the plugin pipeline, then each resulting event to the
\* subscribers and to the iterator; a throw is logged by console.warn unless
\* suppressPluginErrors
emitSingleEvent(w, e) ==
  LET Transformed(tr) ==
        Does([w EXCEPT !.l.nemit = @ + 1,
                       !.l.calls = @ \o tr.calls,
                       !.l.warned = @ + (IF w.l.suppressPluginErrors THEN 0
                                         ELSE Throws(tr.calls))],
             [i \in 1..(2 * Len(tr.events)) |->
                IF i % 2 = 1 THEN <<"emit", <<w.l.nemit + 1, tr.events[(i + 1) \div 2]>>>>
                ELSE <<"enqueueEvent", tr.events[i \div 2]>>])
  IN Transformed(transformEvent(w.l.listeners, e, w.l.nemit + 1))

\* this.emit(type, e), this.emit("*", e): the subscriber's handler, which may
\* call feed
emit(w, mt) ==
  LET logged == [w EXCEPT !.l.delivered =
                            Append(@, [e |-> mt[2], m |-> mt[1], tick |-> w.l.ticks,
                                       queued |-> Len(w.l.delayQueue),
                                       d |-> w.l.disposes])]
  IN IF mt[2].type = w.l.reactOn /\ w.l.reacts > 0
     THEN Does([logged EXCEPT !.l.reacts = @ - 1], <<<<"feed", ReactChunk>>>>)
     ELSE Does(logged, <<>>)

\* enqueueEvent: to the oldest waiting next(), else to the iterator's queue
enqueueEvent(w, t) ==
  IF w.l.waitingResolvers # <<>>
  THEN Does([w EXCEPT !.l.results = Append(@, [call |-> Head(w.l.waitingResolvers),
                                               value |-> <<t>>, done |-> FALSE]),
                      !.l.waitingResolvers = Tail(@)], <<>>)
  ELSE Does([w EXCEPT !.l.eventQueue = Append(@, t)], <<>>)

\* TokenLoom.flush, up to dispatch(events); k numbers the promise it returns
flushLoom(w, o, k) ==
  LET Flushed(r) == Does([w EXCEPT !.st = r.st, !.ev = @ \o r.ev],
                         <<<<"dispatch", [i \in 1..Len(r.ev) |->
                                            LoomEvent(Len(w.ev) + i, r.ev[i].type)]>>,
                           <<"flush:after", k>>>>)
  IN Flushed(flush(w.st, o))
\* TokenLoom.flush, after it
flushLoomAfter(w, k) ==
  IF w.l.emitDelay <= 0
  THEN Does(w, <<<<"emitSingleEvent", LoomEvent(0, "end")>>, <<"resolve", k>>>>)
  ELSE Does([w EXCEPT !.l.flushPromises = Append(@, k)],
            <<<<"checkForFlushCompletion", 0>>>>)

\* one call
Exec(w, o, f, a) ==
  CASE f = "feed" -> feed(w, o, a)
    [] f = "flush" -> flushLoom(w, o, a)
    [] f = "flush:after" -> flushLoomAfter(w, a)
    [] f = "resolve" -> Does([w EXCEPT !.l.resolved = @ \cup {a}], <<>>)
    [] f = "dispatch" -> dispatch(w, a)
    [] f = "dispatchEventsSync" -> dispatchEventsSync(w, a)
    [] f = "startDelayedProcessing" -> startDelayedProcessing(w)
    [] f = "processNextDelayedEvent" -> processNextDelayedEvent(w)
    [] f = "processNextDelayedEvent:after" -> processNextDelayedEventAfter(w)
    [] f = "checkForFlushCompletion" -> checkForFlushCompletion(w)
    [] f = "checkForFlushCompletion:after" -> checkForFlushCompletionAfter(w)
    [] f = "checkForBufferRelease" -> checkForBufferRelease(w)
    [] f = "emitSingleEvent" -> emitSingleEvent(w, a)
    [] f = "emit" -> emit(w, a)
    [] f = "enqueueEvent" -> enqueueEvent(w, a)

\* the call stack, run until it is empty
RECURSIVE Run(_, _, _)
Run(w, o, stack) ==
  IF stack = <<>> THEN w
  ELSE LET Done(r) == Run(r.w, o, r.next \o Tail(stack))
       IN Done(Exec(w, o, stack[1][1], stack[1][2]))

\* (variant that leaves the delay queue as it is)
dispose_KeepsQueue(w) ==
  [w EXCEPT !.l.listeners = <<>>,
            !.l.results = @ \o [i \in 1..Len(w.l.waitingResolvers) |->
                                  [call |-> w.l.waitingResolvers[i],
                                   value |-> <<>>, done |-> TRUE]],
            !.l.waitingResolvers = <<>>,
            !.l.resolved = @ \cup {w.l.flushPromises[i] : i \in 1..Len(w.l.flushPromises)},
            !.l.flushPromises = <<>>,
            !.l.discarded = @ \cup {w.l.delayQueue[i].n : i \in 1..Len(w.l.delayQueue)},
            !.l.disposes = @ + 1]
\* TokenLoom.dispose, with EventBus.dispose
dispose(w) ==
  [w EXCEPT !.l.listeners = <<>>,
            !.l.results = @ \o [i \in 1..Len(w.l.waitingResolvers) |->
                                  [call |-> w.l.waitingResolvers[i],
                                   value |-> <<>>, done |-> TRUE]],
            !.l.waitingResolvers = <<>>,
            !.l.resolved = @ \cup {w.l.flushPromises[i] : i \in 1..Len(w.l.flushPromises)},
            !.l.flushPromises = <<>>,
            !.l.discarded = @ \cup {w.l.delayQueue[i].n : i \in 1..Len(w.l.delayQueue)},
            !.l.delayQueue = <<>>,
            !.l.isProcessingDelay = FALSE,
            !.l.disposes = @ + 1]

\* the iterator's next(); k numbers the call
iteratorNext(w, k) ==
  IF w.l.eventQueue # <<>>
  THEN [w EXCEPT !.l.results = Append(@, [call |-> k, value |-> <<Head(w.l.eventQueue)>>,
                                          done |-> FALSE]),
                 !.l.eventQueue = Tail(@), !.l.nexts = @ + 1]
  ELSE [w EXCEPT !.l.waitingResolvers = Append(@, k), !.l.nexts = @ + 1]

\* ------------------------------------------------------------ state machine
VARIABLES
  opts,     \* the parser options (fixed at construction)
  chunks,   \* the chunks the caller may feed (fixed)
  st,       \* StreamingParser.state
  pc,       \* "idle", or the position inside feedText: "loop", "post"
  events,   \* every event handed to the subscribers so far, in order
  input,    \* every character fed so far
  nfeeds,   \* feed calls so far
  nflushes, \* flush calls so far
  last,     \* the last call made: "none", "feed" or "flush"
  loom      \* the TokenLoom's delivery state (LoomInit), used by the Loom actions

vars == <<opts, chunks, st, pc, events, input, nfeeds, nflushes, last, loom>>

\* TokenLoom.feed -> StreamingParser.feedText: append the chunk, enter the loop
Feed(c) ==
  /\ pc = "idle"
  /\ nfeeds < MaxFeeds
  /\ st' = [st EXCEPT !.buffer = @ \o c]
  /\ input' = input \o c
  /\ nfeeds' = nfeeds + 1
  /\ pc' = "loop"
  /\ last' = "feed"
  /\ UNCHANGED <<opts, chunks, events, nflushes, loom>>

\* one iteration of the while loop, by the handler of the current mode
Step ==
  /\ pc = "loop"
  /\ st.buffer # <<>>
  /\ \E r \in {LoopIter(st, opts)} :
        /\ st' = r.st
        /\ events' = events \o r.ev
        /\ pc' = IF r.brk THEN "post" ELSE "loop"
  /\ UNCHANGED <<opts, chunks, input, nfeeds, nflushes, last, loom>>

TextStep ==
  /\ st.mode = "text"
  /\ Step
TagStep ==
  /\ st.mode = "in-tag"
  /\ Step
FenceStep ==
  /\ st.mode = "in-fence"
  /\ Step

\* the loop is over (buffer empty or no progress): the tail of feedText
FeedReturn ==
  /\ pc = "post" \/ (pc = "loop" /\ st.buffer = <<>>)
  /\ \E r \in {FeedTail(st, opts)} :
        /\ st' = r.st
        /\ events' = events \o r.ev
  /\ pc' = "idle"
  /\ UNCHANGED <<opts, chunks, input, nfeeds, nflushes, last, loom>>

\* TokenLoom.flush without pacing: the parser's flush events, then end
Flush ==
  /\ pc = "idle"
  /\ nflushes < MaxFlushes
  /\ \E r \in {flush(st, opts)} :
        /\ st' = r.st
        /\ events' = events \o r.ev \o <<Ev("end", NoCtx)>>
  /\ nflushes' = nflushes + 1
  /\ last' = "flush"
  /\ UNCHANGED <<opts, chunks, pc, input, nfeeds, loom>>

\* ---- the TokenLoom as a whole: each call, and each timer callback, is one step.
\* In these steps events holds what the parser has returned so far, and
\* loom.delivered what the subscriber has been given.
LoomStep(w) ==
  /\ loom' = w.l
  /\ st' = w.st
  /\ events' = w.ev
  /\ input' = w.input

\* TokenLoom.use -> EventBus.use, while setting the TokenLoom up
Use(kind) ==
  /\ nfeeds = 0 /\ nflushes = 0
  /\ Len(loom.listeners) < MaxPlugins
  /\ loom' = [loom EXCEPT !.listeners = Append(@, kind)]
  /\ UNCHANGED <<opts, chunks, st, pc, events, input, nfeeds, nflushes, last>>

\* TokenLoom.feed
LoomFeed(c) ==
  /\ nfeeds < MaxLoomFeeds
  /\ LoomStep(Run(World(loom, st, events, input), opts, <<<<"feed", c>>>>))
  /\ nfeeds' = nfeeds + 1
  /\ last' = "feed"
  /\ UNCHANGED <<opts, chunks, pc, nflushes>>

\* TokenLoom.flush
LoomFlush ==
  /\ nflushes < MaxLoomFlushes
  /\ LoomStep(Run(World(loom, st, events, input), opts, <<<<"flush", nflushes + 1>>>>))
  /\ nflushes' = nflushes + 1
  /\ last' = "flush"
  /\ UNCHANGED <<opts, chunks, pc, nfeeds>>

\* a setTimeout callback runs: () => this.processNextDelayedEvent(delay)
TimerFires ==
  /\ loom.timers > 0
  /\ LoomStep(Run(World([loom EXCEPT !.timers = @ - 1, !.ticks = @ + 1],
                        st, events, input),
                  opts, <<<<"processNextDelayedEvent", 0>>>>))
  /\ last' = "timer"
  /\ UNCHANGED <<opts, chunks, pc, nfeeds, nflushes>>

\* the consumer calls next() on the async iterator
IteratorNext ==
  /\ loom.nexts < MaxNexts
  /\ LoomStep(iteratorNext(World(loom, st, events, input), loom.nexts + 1))
  /\ last' = "next"
  /\ UNCHANGED <<opts, chunks, pc, nfeeds, nflushes>>

\* TokenLoom.dispose
Dispose ==
  /\ loom.disposes < MaxDisposes
  /\ LoomStep(dispose(World(loom, st, events, input)))
  /\ last' = "dispose"
  /\ UNCHANGED <<opts, chunks, pc, nfeeds, nflushes>>

NextLoom ==
  \/ \E c \in chunks : LoomFeed(c)
  \/ LoomFlush
  \/ TimerFires
  \/ IteratorNext
  \/ Dispose

NextBus ==
  \/ \E kind \in PluginKinds : Use(kind)
  \/ \E c \in chunks : LoomFeed(c)
  \/ LoomFlush

Next ==
  \/ \E c \in chunks : Feed(c)
  \/ TextStep
  \/ TagStep
  \/ FenceStep
  \/ FeedReturn
  \/ Flush

Options(unit, bufLen, specLen, minLen, tags) ==
  [emitUnit |-> unit, bufferLength |-> bufLen, specBufferLength |-> specLen,
   specMinParseLength |-> minLen, tags |-> tags]

InitParser(optSet, chunkSet) ==
  /\ opts \in optSet
  /\ chunks = chunkSet
  /\ st = InitState
  /\ pc = "idle"
  /\ events = <<>>
  /\ input = <<>>
  /\ nfeeds = 0
  /\ nflushes = 0
  /\ last = "none"

\* a parser under a TokenLoom without pacing and without plugins
InitWith(optSet, chunkSet) ==
  /\ InitParser(optSet, chunkSet)
  /\ loom = LoomInit(0, FALSE, "none")

Units == {"token", "word", "grapheme"}
TagA == <<"a">>

Init ==
  InitWith({Options(u, 4, 4, 3, {TagA}) : u \in Units},
           {<<LT, "a", GT>>, <<LT, SL, "a", GT>>, <<"x">>, <<BT, BT, BT>>, <<NL>>, <<SP>>})

Spec == Init /\ [][Next]_vars

\* tags fed character by character, an unrecognized tag, a whole fence line
InitTag ==
  InitWith({Options(u, 4, 4, m, {TagA}) : u \in Units, m \in {2, 4}},
           {<<LT>>, <<"a">>, <<GT>>, <<"b">>, <<"a", GT>>, <<LT, "b", GT>>,
            <<BT, BT, BT, NL>>})
SpecTag == InitTag /\ [][Next]_vars

\* fence opening lines fed in pieces, a whole tag
InitFence ==
  InitWith({Options(u, 4, n, m, {TagA}) : u \in {"token", "word"}, n \in {4, 6}, m \in {2, 5}},
           {<<BT>>, <<BT, BT, BT>>, <<"j">>, <<SP>>, <<NL>>, <<LT, "a", GT>>})
SpecFence == InitFence /\ [][Next]_vars

\* candidates (a lone <, </, fence characters) fed in pieces against a small
\* specBufferLength, with specMinParseLength below and above it
InitWait ==
  InitWith({Options(u, 4, n, m, {TagA}) : u \in {"token", "word"}, n \in {2, 3}, m \in {1, 4}},
           {<<LT>>, <<"a">>, <<LT, SL>>, <<BT>>, <<SP>>, <<LT, "a", GT>>,
            <<BT, BT, BT, NL>>})
SpecWait == InitWait /\ [][Next]_vars

\* an open tag, with and without attributes, and closing tags whole, in
\* pieces, with whitespace before the > and with a longer name
InitClose ==
  InitWith({Options(u, 4, 4, 2, {TagA}) : u \in {"token", "word"}},
           {<<LT, "a", GT>>, <<LT, "a", SP, "x", "=", "'", "j", "'", GT>>,
            <<LT, SL, "a", GT>>, <<LT, SL, "a">>, <<"b">>, <<GT>>, <<SP>>,
            <<BT, BT, BT, NL>>})
SpecClose == InitClose /\ [][Next]_vars

\* a fence opened by one chunk, then content, indentation and closing lines in
\* pieces, with specMinParseLength below and above the length of a delimiter
InitBlock ==
  InitWith({Options(u, 4, 6, n, {TagA}) : u \in {"token", "word"}, n \in {2, 5}},
           {<<BT, BT, BT, NL>>, <<BT, BT, BT>>, <<NL>>, <<"x">>, <<SP>>,
            <<LT, "a", GT>>})
SpecBlock == InitBlock /\ [][Next]_vars

\* a TokenLoom without plugins, with and without pacing, whose subscriber may
\* feed from its handler
InitLoom ==
  /\ InitParser({Options("token", 4, 4, 3, {TagA})}, {<<"x">>, <<"x", SP>>})
  /\ loom \in {LoomInit(d, FALSE, r) : d \in {0, 1}, r \in {"none", "text"}}
SpecLoom == InitLoom /\ [][NextLoom]_vars

\* whole calls of feed and flush, in any order, flush more than once, with
\* the empty chunk among the chunks and with a bufferLength that a chunk reaches
NextCalls ==
  \/ \E c \in chunks : LoomFeed(c)
  \/ LoomFlush
InitCalls ==
  InitWith({Options(u, b, 4, 3, {TagA}) : u \in {"token", "word"}, b \in {2, 4}},
           {<<>>, <<"x">>, <<"x", SP>>, <<LT>>, <<"x", LT>>, <<LT, "a", NL>>,
            <<"x", "x", LT, SL, "a">>, <<LT, "a", GT>>,
            <<LT, SL, "a", GT>>, <<BT, BT>>, <<BT, BT, BT, NL>>, <<NL>>})
SpecCalls == InitCalls /\ [][NextCalls]_vars

\* a TokenLoom without pacing, with up to MaxPlugins plugins
InitBus ==
  /\ InitParser({Options("token", 4, 4, 3, {TagA})}, {<<"x">>, <<"x", SP>>})
  /\ loom \in {LoomInit(0, b, "none") : b \in BOOLEAN}
SpecBus == InitBus /\ [][NextBus]_vars

\* ------------------------------------------------------- reading the events
IsTextual(e) == e.type \in {"text", "code-fence-chunk"}
JustFlushed == last = "flush"
Count(evs, type) == Cardinality({i \in 1..Len(evs) : evs[i].type = type})

\* the text of the text events, in order
RECURSIVE TextOf(_)
TextOf(evs) ==
  IF evs = <<>> THEN <<>>
  ELSE (IF Head(evs).type = "text" THEN Head(evs).text ELSE <<>>) \o TextOf(Tail(evs))

\* the literal form of an event: its text, <name attrs>, </name>, the delimiter line
Literal(e) ==
  CASE IsTextual(e) -> e.text
    [] e.type = "tag-open" -> <<LT>> \o serializeTag([name |-> e.name, attrs |-> e.attrs])
    [] e.type = "tag-close" -> <<LT, SL>> \o e.name \o <<GT>>
    [] e.type \in {"code-fence-start", "code-fence-end"} -> e.raw
    [] OTHER -> <<>>

RECURSIVE Recon(_)
Recon(evs) == IF evs = <<>> THEN <<>> ELSE Literal(Head(evs)) \o Recon(Tail(evs))

\* the structural events with the text between them joined
Item(e) ==
  [type |-> e.type, name |-> e.name, attrs |-> e.attrs, fence |-> e.fence,
   lang |-> e.lang, text |-> e.text]
RECURSIVE Shape(_)
Shape(evs) ==
  IF evs = <<>> THEN <<>>
  ELSE LET r == Shape(Tail(evs))
           e == Item(Head(evs))
       IN IF r # <<>> /\ IsTextual(e) /\ r[1].type = e.type
          THEN <<[r[1] EXCEPT !.text = e.text \o @]>> \o Tail(r)
          ELSE <<e>> \o r

\* position of the nearest event before j whose type is in types, 0 if none
PrevOf(evs, j, types) ==
  LET ks == {k \in 1..(j - 1) : evs[k].type \in types}
  IN IF ks = {} THEN 0 ELSE CHOOSE k \in ks : \A m \in ks : k >= m
\* position of the nearest event after j whose type is in types, 0 if none
NextOf(evs, j, types) ==
  LET ks == {k \in (j + 1)..Len(evs) : evs[k].type \in types}
  IN IF ks = {} THEN 0 ELSE CHOOSE k \in ks : \A m \in ks : k <= m

\* s contains <name ...> with name in tags
HasOpenTag(s, tags) ==
  \E i \in 1..Len(s) :
    LET t == Drop(s, i - 1)
    IN OpenMatches(t) /\ SubSeq(t, 2, OpenNameEnd(t)) \in tags
\* s contains a line that starts, after at most 3 spaces, with 3 fence characters
HasFenceLine(s) ==
  \E i \in 1..(Len(s) - 2) :
    FenceRunStartsAt(s, i) /\ s[i + 1] = s[i] /\ s[i + 2] = s[i]

\* ------------------------------------------------------------------ claims
\* C1 (as claimed): after a flush, the texts of the text and code-fence-chunk
\* events together with the literal forms of the structural events, in order,
\* reproduce the input fed so far.
C1_RoundTrip == JustFlushed => Recon(events) = input

\* C2 (as claimed): for an input without recognized tag and without fence line,
\* after a flush the texts of the text events concatenate to the input.
C2_TextComplete ==
  (JustFlushed /\ ~HasOpenTag(input, opts.tags) /\ ~HasFenceLine(input))
    => TextOf(events) = input

\* C3 (as claimed): chunking independence - the events of the chunked run, after
\* its first flush, have the same structural events and the same text between
\* them as the run that feeds the same input as one chunk.
C3_ChunkingIndependent ==
  (JustFlushed /\ nflushes = 1)
    => Shape(events) = Shape(RunWhole(input, opts))

TagTypes == {"tag-open", "tag-close"}

\* C4 (as claimed): tag-open and tag-close strictly alternate starting with
\* tag-open, a tag-close names the tag-open right before it, and when end is
\* emitted there are as many tag-open as tag-close events.
C4_TagsAlternateBalanced ==
  /\ \A j \in 1..Len(events) :
       LET k == PrevOf(events, j, TagTypes)
       IN /\ events[j].type = "tag-open" => (k = 0 \/ events[k].type = "tag-close")
          /\ events[j].type = "tag-close"
               => (k # 0 /\ events[k].type = "tag-open" /\ events[k].name = events[j].name)
  /\ \A j \in 1..Len(events) :
       events[j].type = "end"
         => Count(Take(events, j), "tag-open") = Count(Take(events, j), "tag-close")

\* the flush events that found a tag open: the nearest tag event or flush before
\* them is a tag-open
CutByFlush(evs) ==
  {j \in 1..Len(evs) :
     /\ evs[j].type = "flush"
     /\ LET k == PrevOf(evs, j, TagTypes \cup {"flush"})
        IN k # 0 /\ evs[k].type = "tag-open"}

\* C4 (amended): a flush ends an open tag without a tag-close.  Reading each
\* flush that found a tag open as the end of that tag, tag-open and tag-close
\* alternate starting with tag-open, a tag-close names the tag-open right before
\* it, and when end is emitted the tag-open events are as many as the tag-close
\* events plus the flushes that found a tag open.
C4_TagsAlternateUpToFlush ==
  /\ \A j \in 1..Len(events) :
       LET k == PrevOf(events, j, TagTypes \cup {"flush"})
       IN /\ events[j].type = "tag-open" => (k = 0 \/ events[k].type # "tag-open")
          /\ events[j].type = "tag-close"
               => (k # 0 /\ events[k].type = "tag-open" /\ events[k].name = events[j].name)
  /\ \A j \in 1..Len(events) :
       events[j].type = "end"
         => Count(Take(events, j), "tag-open")
              = Count(Take(events, j), "tag-close") + Cardinality(CutByFlush(Take(events, j)))

\* C4 witness: a tag was closed by its closing tag, a later one was cut by flush
C4_Witness ==
  /\ JustFlushed
  /\ Count(events, "tag-close") >= 1
  /\ CutByFlush(events) # {}

FenceStops == {"code-fence-start", "code-fence-end", "tag-open", "flush"}

\* C5: after a code-fence-start the next event among code-fence-start,
\* code-fence-end, tag-open and flush, if there is one, is a code-fence-end; and
\* a code-fence-end is only emitted for a fence that is open (the nearest
\* code-fence-start/end before it is a start).  So each start gets exactly one
\* end, before any other start or tag-open and no later than the next flush.
C5_FenceStartEnded ==
  \A j \in 1..Len(events) :
    /\ events[j].type = "code-fence-start"
         => LET k == NextOf(events, j, FenceStops)
            IN k # 0 => events[k].type = "code-fence-end"
    /\ events[j].type = "code-fence-end"
         => LET k == PrevOf(events, j, {"code-fence-start", "code-fence-end"})
            IN k # 0 /\ events[k].type = "code-fence-start"
    /\ events[j].type = "flush"
         => LET k == PrevOf(events, j, {"code-fence-start", "code-fence-end"})
            IN k # 0 => events[k].type = "code-fence-end"

\* C5 witness: flush was called while a fence with content was open, and the
\* code-fence-end it emitted (which consumed no closing line) precedes the flush
C5_Witness ==
  /\ JustFlushed
  /\ \E i, j \in 1..Len(events) :
       /\ i < j
       /\ events[i].type = "code-fence-chunk"
       /\ events[j].type = "code-fence-end" /\ events[j].raw = <<>>
       /\ j + 1 <= Len(events) /\ events[j + 1].type = "flush"

\* C6 (as claimed): no emitted event has both in.inTag and in.inCodeFence set,
\* and neither has the parser's context.
C6_NotBothScopes ==
  /\ \A j \in 1..Len(events) :
       ~(events[j].in.inTag # <<>> /\ events[j].in.inCodeFence # <<>>)
  /\ ~(st.context.inTag # <<>> /\ st.context.inCodeFence # <<>>)

\* C7: mode is in-tag exactly when currentTag is set, in-fence exactly when
\* currentFence is set, in every state between handler invocations.
C7_ModeMatchesScope ==
  /\ st.mode = "in-tag" <=> st.currentTag # <<>>
  /\ st.mode = "in-fence" <=> st.currentFence # <<>>

\* C7 witness: a tag was opened and closed, a flush was made, a fence is open
C7_Witness ==
  /\ st.mode = "in-fence"
  /\ Count(events, "tag-close") >= 1
  /\ nflushes >= 1

IsPrefix(p, s) == Len(p) <= Len(s) /\ Take(s, Len(p)) = p
HasFenceChar(s) == \E i \in 1..Len(s) : IsFenceChar(s[i])
Contains(s, sub) == IndexOf(s, sub) # 0
\* position of the first event that is not a text or code-fence-chunk event, 0 if none
FirstStructural(evs) ==
  LET ks == {k \in 1..Len(evs) : ~IsTextual(evs[k])}
  IN IF ks = {} THEN 0 ELSE CHOOSE k \in ks : \A m \in ks : k <= m

\* C8: every tag-open names a configured tag; an input without any <name ...>
\* whose name is configured produces no tag-open and never enters in-tag mode;
\* and when such an input has no fence characters either, the parser stays in
\* text mode, emits only text events, and after a flush their texts are the
\* input up to a trailing run of word characters (every character of the
\* unrecognized markup, which ends in >, has been emitted as text).
C8_UnrecognizedTagIsText ==
  /\ \A j \in 1..Len(events) :
       events[j].type = "tag-open" => events[j].name \in opts.tags
  /\ ~HasOpenTag(input, opts.tags)
       => (st.mode # "in-tag" /\ Count(events, "tag-open") = 0)
  /\ (~HasOpenTag(input, opts.tags) /\ ~HasFenceChar(input))
       => /\ st.mode = "text"
          /\ \A j \in 1..Len(events) : events[j].type \in {"text", "flush", "end"}
          /\ IsPrefix(TextOf(events), input)
          /\ JustFlushed
               => \A i \in (Len(TextOf(events)) + 1)..Len(input) : IsWordChar(input[i])

\* C8 witness: <b> was fed, with b not configured, and came out as text
C8_Witness ==
  /\ JustFlushed
  /\ Contains(input, <<LT, "b", GT>>)
  /\ ~HasOpenTag(input, opts.tags)
  /\ TextOf(events) = input

\* the input is plain letters, then <a> with a configured
TagAt(p) ==
  /\ p >= 1 /\ p + 2 <= Len(input)
  /\ \A i \in 1..(p - 1) : IsLetter(input[i])
  /\ SubSeq(input, p, p + 2) = <<LT>> \o TagA \o <<GT>>
  /\ TagA \in opts.tags

\* C9 (as claimed): a recognized <a> that arrived split across feeds has, once
\* flush was called, produced a tag-open as the first structural event, and no
\* text event before it holds a character of the tag.
C9_SplitTagOpens ==
  \A p \in 1..Len(input) :
    (TagAt(p) /\ JustFlushed /\ nflushes = 1)
      => LET q == FirstStructural(events)
         IN /\ q # 0 /\ events[q].type = "tag-open" /\ events[q].name = TagA
            /\ IsPrefix(TextOf(Take(events, q - 1)), Take(input, p - 1))

\* C9 (amended): the same, provided at least specMinParseLength characters,
\* counted from the < of the tag, have been fed before the first flush; the
\* structural event after the tag-open is not another tag-open, and until a
\* flush the text events together hold only input from before and after the tag.
C9_SplitTagOpensWhenParsed ==
  \A p \in 1..Len(input) :
    (/\ TagAt(p)
     /\ pc = "idle"
     /\ nflushes = 0 \/ (nflushes = 1 /\ JustFlushed)
     /\ Len(input) - p + 1 >= opts.specMinParseLength)
      => LET q == FirstStructural(events)
             k == NextOf(events, q, {"tag-open", "tag-close", "flush"})
         IN /\ q # 0 /\ events[q].type = "tag-open" /\ events[q].name = TagA
            /\ IsPrefix(TextOf(Take(events, q - 1)), Take(input, p - 1))
            /\ k # 0 => events[k].type # "tag-open"
            /\ nflushes = 0
                 => IsPrefix(TextOf(events), Take(input, p - 1) \o Drop(input, p + 2))

\* C9 witness: <a> arrived in three feeds and opened the tag
C9_Witness ==
  /\ TagAt(1) /\ Len(input) = 3 /\ nfeeds = 3
  /\ events # <<>> /\ events[1].type = "tag-open"

\* the input starts with a run of n >= 3 fence characters; position of its newline
LineEnd == IndexOf(input, <<NL>>)
RunAtStart(n) ==
  /\ n >= 3 /\ n <= Len(input)
  /\ IsFenceChar(input[1])
  /\ \A i \in 1..n : input[i] = input[1]
  /\ n < Len(input) => input[n + 1] # input[1]
FenceLineAtStart(n) == RunAtStart(n) /\ LineEnd # 0

\* lang is info without the white space around it
IsTrimmed(lang, info) ==
  /\ lang # <<>> => (~IsSpaceChar(lang[1]) /\ ~IsSpaceChar(lang[Len(lang)]))
  /\ \E a \in 0..Len(info) :
       /\ a + Len(lang) <= Len(info)
       /\ SubSeq(info, a + 1, a + Len(lang)) = lang
       /\ \A i \in (1..a) \cup ((a + Len(lang) + 1)..Len(info)) : IsSpaceChar(info[i])

FenceStartIs(e, n) ==
  /\ e.type = "code-fence-start"
  /\ e.fence = input[1]
  /\ IsTrimmed(e.lang, SubSeq(input, n + 1, LineEnd - 1))

Suffix(s, k) == SubSeq(s, Len(s) - k + 1, Len(s))
IsSuffix(t, s) == Len(t) <= Len(s) /\ Suffix(s, Len(t)) = t

\* a < followed by text that may still become a tag: no > yet
TagCandidate(s) ==
  /\ Len(s) >= 2 /\ s[1] = LT /\ looksLikeTagStart(s)
  /\ \A i \in 1..Len(s) : s[i] # GT
\* a fence run, or a fence opening line, whose newline has not come
FenceCandidate(s) ==
  /\ s # <<>> /\ IsFenceChar(s[1])
  /\ \A i \in 1..Len(s) : s[i] # NL

WaitBound == Max(opts.specBufferLength, opts.specMinParseLength)

\* the whole input is one candidate that has reached the bound: a tag start
\* with no < or fence character after it, or a run of one fence character of
\* exactly that length (a longer run starts a second candidate)
OneCandidate(s) ==
  \/ /\ TagCandidate(s) /\ Len(s) >= WaitBound
     /\ \A i \in 2..Len(s) : s[i] # LT /\ ~IsFenceChar(s[i])
  \/ /\ Len(s) = WaitBound /\ IsFenceChar(s[1])
     /\ \A i \in 1..Len(s) : s[i] = s[1]

\* C12 (as claimed): after a feed has returned in text mode the buffer is
\* shorter than max(specBufferLength, specMinParseLength); and an input that is
\* one unresolved candidate at least that long has been emitted as text whole.
C12_CandidateEmitted ==
  /\ (pc = "idle" /\ st.mode = "text") => Len(st.buffer) < WaitBound
  /\ (pc = "idle" /\ st.mode = "text" /\ nflushes = 0
        /\ OneCandidate(input))
       => TextOf(events) = input

\* C12 (amended): the same bound; and such an input has left the buffer and the
\* text hold, and has been emitted as text except for a trailing word that the
\* word unit holds back in segHold.
C12_CandidateReleased ==
  /\ (pc = "idle" /\ st.mode = "text") => Len(st.buffer) < WaitBound
  /\ (pc = "idle" /\ st.mode = "text" /\ nflushes = 0
        /\ OneCandidate(input))
       => /\ st.buffer = <<>> /\ st.textHold = <<>>
          /\ TextOf(events) \o st.segHold = input
          /\ st.segHold # <<>>
               => /\ opts.emitUnit = "word"
                  /\ \A i \in 1..Len(st.segHold) : IsWordChar(st.segHold[i])

\* C12 witness: a tag start grew over several feeds to the bound without a >,
\* and came out as text
C12_Witness ==
  /\ pc = "idle" /\ st.mode = "text" /\ nflushes = 0 /\ nfeeds >= 2
  /\ TagCandidate(input) /\ OneCandidate(input)
  /\ TextOf(events) = input

\* position in s of the first closing tag </name\s*>, 0 if none
ClosePos(s, name) ==
  LET ps == {q \in 1..(Len(s) - Len(name) - 2) :
               CloseTagLength(Drop(s, q - 1), name) > 0}
  IN IF ps = {} THEN 0 ELSE CHOOSE q \in ps : \A r \in ps : q <= r

\* the input starts with a tag that the parser has opened
OpenedAtStart ==
  /\ events # <<>> /\ events[1].type = "tag-open"
  /\ IsPrefix(events[1].raw, input)
\* what was fed after the opening tag
Content == Drop(input, Len(events[1].raw))

\* C13: once the input after an opened tag contains a complete closing tag, the
\* feed that completed it has emitted the content before it as text and then
\* tag-close, and the parser is out of the tag: whatever the content is.
C13_CloseTagCloses ==
  (pc = "idle" /\ nflushes = 0 /\ OpenedAtStart
     /\ ClosePos(Content, events[1].name) > 0)
    => \E k \in 2..Len(events) :
         /\ events[k].type = "tag-close" /\ events[k].name = events[1].name
         /\ \A j \in 2..(k - 1) : events[j].type = "text"
         /\ TextOf(SubSeq(events, 2, k - 1))
              = Take(Content, ClosePos(Content, events[1].name) - 1)
         /\ st.currentTag = <<>>

C19_FlushInTagEmitsMarkup ==
  [][(nflushes' = nflushes + 1 /\ st.mode = "in-tag")
       => /\ Count(SubSeq(events', Len(events) + 1, Len(events')), "tag-close") = 0
          /\ IsSuffix(<<LT>> \o serializeTag(st.currentTag[1]),
                      TextOf(SubSeq(events', Len(events) + 1, Len(events'))))
          /\ st'.mode = "text" /\ st'.currentTag = <<>>]_vars

\* C19 witness: text, then a tag with an attribute, then flush while the tag
\* was waiting for the rest of a closing tag
C19_Witness ==
  /\ JustFlushed /\ st.mode = "text" /\ st.currentTag = <<>>
  /\ Count(events, "tag-open") = 1 /\ Count(events, "tag-close") = 0
  /\ events[1].type = "text"
  /\ \E k \in 2..Len(events) :
       /\ events[k].type = "tag-open" /\ events[k].attrs # <<>>
       /\ IsSuffix(<<LT, SL, "a">> \o Literal(events[k]), TextOf(events))

\* the input starts with a fence line that the parser has opened
FenceOpenedAtStart ==
  /\ events # <<>> /\ events[1].type = "code-fence-start"
  /\ IsPrefix(events[1].raw, input)
\* what was fed after the opening line
Body == Drop(input, Len(events[1].raw))
\* the length of the run of fence characters that opened the fence
OpenRun ==
  LET r == events[1].raw
  IN CHOOSE n \in 1..Len(r) :
       /\ \A i \in 1..n : r[i] = events[1].fence
       /\ n = Len(r) \/ r[n + 1] # events[1].fence
\* the event that ended the first fence by a closing line, 0 if none
FirstClose ==
  LET k == NextOf(events, 1, {"code-fence-end"})
  IN IF k # 0 /\ events[k].raw # <<>> THEN k ELSE 0

\* s has a line that is, after at most 3 spaces, exactly len copies of c and
\* then only spaces up to its newline or the end of s
HasCloseLine(s, c, len) ==
  \E p \in 1..Len(s) : \E n \in 0..3 :
    /\ p = 1 \/ s[p - 1] = NL
    /\ p + n + len - 1 <= Len(s)
    /\ \A i \in p..(p + n - 1) : s[i] = SP
    /\ \A i \in (p + n)..(p + n + len - 1) : s[i] = c
    /\ \E q \in (p + n + len)..(Len(s) + 1) :
         /\ q = Len(s) + 1 \/ s[q] = NL
         /\ \A i \in (p + n + len)..(q - 1) : IsSpaceChar(s[i]) /\ s[i] # NL

\* the text of the code-fence-chunk events, in order
RECURSIVE FenceText(_)
FenceText(evs) ==
  IF evs = <<>> THEN <<>>
  ELSE (IF Head(evs).type = "code-fence-chunk" THEN Head(evs).text ELSE <<>>)
       \o FenceText(Tail(evs))

\* C14: a fence is ended by a closing line only if the input after the opening
\* line has a line made of exactly the opening run followed only by whitespace.
C14_OnlyExactRunCloses ==
  (pc = "idle" /\ FenceOpenedAtStart /\ FirstClose # 0)
    => HasCloseLine(Body, events[1].fence, OpenRun)

\* C15: code-fence-start is emitted only when the input has a line that begins,
\* after at most 3 spaces, with a run of 3 fence characters.
C15_FenceOnlyAtLineStart ==
  Count(events, "code-fence-start") > 0 => HasFenceLine(input)

\* C16: the closing line consumed with a code-fence-end holds one newline at
\* most, its last character; what follows that newline is left for text.
C16_OnlyClosingLineConsumed ==
  \A k \in 1..Len(events) :
    events[k].type = "code-fence-end"
      => \A i \in 1..(Len(events[k].raw) - 1) : events[k].raw[i] # NL

\* C17: when a closing line ends the fence, the chunks between start and end
\* concatenate to the input between the opening line and the closing line: the
\* input is the opening line, the chunk text (whole lines), at most 3 spaces of
\* indentation, the consumed delimiter, and what follows.
C17_ChunksAreTheBody ==
  (pc = "idle" /\ FenceOpenedAtStart /\ FirstClose # 0)
    => \E n \in 0..3 :
         LET body == FenceText(SubSeq(events, 2, FirstClose - 1))
         IN /\ body = <<>> \/ body[Len(body)] = NL
            /\ IsPrefix(events[1].raw \o body \o Repeat(<<SP>>, n)
                          \o events[FirstClose].raw, input)

\* s ends, or begins, with a word character
EndsInWord(s) == s # <<>> /\ IsWordChar(s[Len(s)])
BeginsWithWord(s) == s # <<>> /\ IsWordChar(s[1])

\* C20: with the word unit, no text or code-fence-chunk event ends in a word
\* character when the input goes on with a word character: not when the next
\* event carries on the same text, and not when the rest is still held by the
\* parser after a feed.
C20_WordsNotSplit ==
  opts.emitUnit = "word"
    => /\ \A j \in 1..(Len(events) - 1) :
            (IsTextual(events[j]) /\ events[j + 1].type = events[j].type
               /\ EndsInWord(events[j].text))
              => ~BeginsWithWord(events[j + 1].text)
       /\ (pc = "idle" /\ last = "feed" /\ events # <<>>
             /\ IsTextual(events[Len(events)]) /\ EndsInWord(events[Len(events)].text))
            => ~BeginsWithWord(st.segHold \o st.fenceHold \o st.textHold \o st.buffer)

\* C20 witness: a word fed in two chunks came out as one text event once a
\* space ended it
C20_Witness ==
  /\ opts.emitUnit = "word" /\ pc = "idle" /\ nfeeds = 3
  /\ input = <<"x", "x", SP>>
  /\ Len(events) = 2 /\ events[1].type = "text" /\ events[1].text = <<"x", "x">>
  /\ events[2].text = <<SP>>

\* C21: when the first structural event is a tag-open or a code-fence-start,
\* the text events before it carry all the input that precedes the tag or the
\* fence line: that text followed by the consumed markup is a prefix of the
\* input.
C21_TextBeforeBoundary ==
  LET k == FirstStructural(events)
  IN (k # 0 /\ events[k].type \in {"tag-open", "code-fence-start"})
       => IsPrefix(TextOf(SubSeq(events, 1, k - 1)) \o events[k].raw, input)

\* the scope an event lies in by the events before it: the name of the tag
\* whose tag-open is the nearest tag-open, tag-close or flush before j
TagScope(evs, j) ==
  LET k == PrevOf(evs, j, {"tag-open", "tag-close", "flush"})
  IN IF k # 0 /\ evs[k].type = "tag-open" THEN <<evs[k].name>> ELSE <<>>

\* C22: a text event after a tag-open and before its tag-close carries that
\* tag in in.inTag; a text event outside (before any tag, after a tag-close,
\* after a flush) carries no inTag; a code-fence-chunk carries inCodeFence and
\* no inTag.
C22_ContextMatchesScope ==
  \A j \in 1..Len(events) :
    /\ events[j].type = "text"
         => IF TagScope(events, j) = <<>> THEN events[j].in.inTag = <<>>
            ELSE /\ events[j].in.inTag # <<>>
                 /\ events[j].in.inTag[1].name = TagScope(events, j)[1]
    /\ events[j].type = "code-fence-chunk"
         => events[j].in.inCodeFence # <<>> /\ events[j].in.inTag = <<>>

\* ---- reading what a TokenLoom delivered
\* positions in loom.delivered of the events of a type
DeliveredOf(type) == {i \in 1..Len(loom.delivered) : loom.delivered[i].e.type = type}
\* positions of the events that came from the parser
FromParser == {i \in 1..Len(loom.delivered) : loom.delivered[i].e.n > 0}
\* nothing is waiting to be delivered
Drained == loom.delayQueue = <<>> /\ loom.timers = 0

\* C23: end is delivered once at most, each time after a flush
\* event and with nothing left in the delay queue, and once when a flush has
\* been called and everything has drained.
C23_EndExactlyOnce ==
  /\ Cardinality(DeliveredOf("end")) <= 1
  /\ \A i \in DeliveredOf("end") :
       /\ loom.delivered[i].queued = 0
       /\ \E j \in DeliveredOf("flush") : j < i
  /\ (nflushes > 0 /\ loom.disposes = 0 /\ Drained) => DeliveredOf("end") # {}

\* C24: the subscriber is given the parser's events in the order the parser
\* produced them, and so is the iterator (what next() calls got, then what is
\* queued for it).
C24_DeliveredInOrder ==
  /\ \A i, j \in FromParser : i < j => loom.delivered[i].e.n < loom.delivered[j].e.n
  /\ LET got == [i \in 1..Len(loom.eventQueue) |-> loom.eventQueue[i].n]
     IN \A i, j \in 1..Len(got) : (i < j /\ got[i] > 0 /\ got[j] > 0) => got[i] < got[j]

\* C25: with pacing, a timer callback runs between any two successive
\* deliveries of parser events.
C25_TimerBetweenDeliveries ==
  loom.emitDelay > 0
    => \A i, j \in FromParser : i < j => loom.delivered[i].tick < loom.delivered[j].tick

\* C26: dispose resolves every waiting next() with done, resolves every pending
\* flush promise, empties the delay queue and delivers nothing; and no event
\* that was in the delay queue at a dispose is ever delivered.
C26_DisposeSettlesAll ==
  /\ [](\A i \in FromParser : loom.delivered[i].e.n \notin loom.discarded)
  /\ [][loom'.disposes = loom.disposes + 1
          => /\ loom'.waitingResolvers = <<>>
             /\ \A i \in 1..Len(loom.waitingResolvers) :
                  \E k \in 1..Len(loom'.results) :
                    /\ loom'.results[k].call = loom.waitingResolvers[i]
                    /\ loom'.results[k].done
             /\ loom'.flushPromises = <<>>
             /\ \A i \in 1..Len(loom.flushPromises) :
                  loom.flushPromises[i] \in loom'.resolved
             /\ loom'.delayQueue = <<>>
             /\ loom'.delivered = loom.delivered
             /\ loom'.eventQueue = loom.eventQueue]_vars

\* C26 witness: dispose found a next() waiting, a flush promise pending and
\* events in the delay queue
C26_Witness ==
  /\ last = "dispose"
  /\ loom.discarded # {}
  /\ \E k \in 1..Len(loom.results) : loom.results[k].done
  /\ 1 \in loom.resolved
  /\ Cardinality(DeliveredOf("end")) = 0

\* ---- reading what the plugin pipeline did
\* positions in loom.calls of the stages run for emission m
CallsOf(m) == {i \in 1..Len(loom.calls) : loom.calls[i][1] = m}
\* positions in loom.delivered of the events that emission m delivered
DeliveredIn(m) == {i \in 1..Len(loom.delivered) : loom.delivered[i].m = m}
\* stage s1 of plugin p1 comes before stage s2 of plugin p2 in the pipeline
StageBefore(p1, s1, p2, s2) == s1 < s2 \/ (s1 = s2 /\ p1 < p2)
\* the stage function of plugin p for stage s
KindAt(p, s) == loom.listeners[p][s]
\* the stage functions that return changed events
MarkKinds == {"mark", "split", "markThenThrow"}
\* the event carries the mark of stage s of plugin p
HasMark(trail, p, s) == \E k \in 1..Len(trail) : trail[k][1] = p /\ trail[k][2] = s
\* the number of events a logged stage left in the list
OutSize(c) ==
  IF c[4] = "throw" THEN c[5]
  ELSE CASE KindAt(c[2], c[3]) \in {"drop", "throw"} -> 0
         [] KindAt(c[2], c[3]) = "split" -> 2 * c[5]
         [] OTHER -> c[5]
\* the stages defined by the registered plugins
Stages == {ps \in (1..Len(loom.listeners)) \X (1..3) : KindAt(ps[1], ps[2]) # "none"}
\* the place of an event among the events split from the same event
RECURSIVE Rank(_)
Rank(trail) ==
  IF trail = <<>> THEN 0
  ELSE LET h == trail[Len(trail)]
           rest == Rank(SubSeq(trail, 1, Len(trail) - 1))
       IN IF h[3] = 0 THEN rest ELSE 2 * rest + (h[3] - 1)
RECURSIVE Pow2(_)
Pow2(k) == IF k = 0 THEN 1 ELSE 2 * Pow2(k - 1)

\* C27: for each emitted event the stages run in the order pre, main, post,
\* within a stage in registration order; each stage is given the list the
\* previous one left (the first one the event alone); and a delivered event
\* carries the marks of the stages that changed it, in that order.
C27_StagesInOrder ==
  /\ \A i, j \in 1..Len(loom.calls) :
       (i < j /\ loom.calls[i][1] = loom.calls[j][1])
         => StageBefore(loom.calls[i][2], loom.calls[i][3],
                        loom.calls[j][2], loom.calls[j][3])
  /\ \A i \in 1..Len(loom.calls) :
       IF i > 1 /\ loom.calls[i - 1][1] = loom.calls[i][1]
       THEN loom.calls[i][5] = OutSize(loom.calls[i - 1])
       ELSE loom.calls[i][5] = 1
  /\ \A d \in 1..Len(loom.delivered) :
       LET trail == loom.delivered[d].e.trail
       IN /\ \A a, b \in 1..Len(trail) :
               a < b => StageBefore(trail[a][1], trail[a][2], trail[b][1], trail[b][2])
          /\ \A i \in CallsOf(loom.delivered[d].m) :
               (loom.calls[i][4] = "ok" /\ KindAt(loom.calls[i][2], loom.calls[i][3]) \in MarkKinds)
                 => HasMark(trail, loom.calls[i][2], loom.calls[i][3])

\* C27 witness: with two plugins, a delivered event was changed by the second
\* plugin's pre stage and after that by the first plugin's main stage
C27_Witness ==
  /\ Len(loom.listeners) = 2
  /\ \E d \in 1..Len(loom.delivered) :
       LET trail == loom.delivered[d].e.trail
       IN \E a, b \in 1..Len(trail) :
            /\ a < b
            /\ trail[a][1] = 2 /\ trail[a][2] = 1
            /\ trail[b][1] = 1 /\ trail[b][2] = 2

\* C28: for an emitted event whose stages did not throw: if a stage returns
\* null, nothing is delivered and every later stage is given an empty list;
\* otherwise two events are delivered for each stage that returns an array of
\* two, in the order of the arrays; and the iterator's queue holds exactly the
\* delivered events, in order.
C28_NullDropsArraySplices ==
  /\ loom.eventQueue = [i \in 1..Len(loom.delivered) |-> loom.delivered[i].e]
  /\ \A m \in 1..loom.nemit :
       (\A i \in CallsOf(m) : loom.calls[i][4] = "ok")
         => /\ \A ps \in Stages :
                 KindAt(ps[1], ps[2]) = "drop"
                   => /\ DeliveredIn(m) = {}
                      /\ \A i \in CallsOf(m) :
                           StageBefore(ps[1], ps[2], loom.calls[i][2], loom.calls[i][3])
                             => loom.calls[i][5] = 0
            /\ (\A ps \in Stages : KindAt(ps[1], ps[2]) # "drop")
                 => Cardinality(DeliveredIn(m)) =
                      Pow2(Cardinality({ps \in Stages : KindAt(ps[1], ps[2]) = "split"}))
            /\ \A d \in DeliveredIn(m) :
                 Rank(loom.delivered[d].e.trail) =
                   Cardinality({d2 \in DeliveredIn(m) : d2 < d})

\* C28 witness: a pre stage split an event in two, a main stage returned null
\* for both, and the post stage was given an empty list
C28_Witness ==
  /\ loom.listeners = <<<<"split", "none", "mark">>, <<"none", "drop", "none">>>>
  /\ loom.nemit > 0 /\ loom.delivered = <<>> /\ loom.eventQueue = <<>>
  /\ \E i, j \in CallsOf(1) :
       /\ loom.calls[i][2] = 2 /\ loom.calls[i][5] = 2
       /\ loom.calls[j][3] = 3 /\ loom.calls[j][5] = 0

\* C29: when a stage throws for an emitted event, the next stage is given the
\* list the failing stage was given, no delivered event carries a mark of the
\* failing stage, every other defined stage still runs, the event is delivered
\* unless a stage returns null, and every later emitted event goes through
\* every defined stage.
C29_ThrowKeepsList ==
  /\ \A m \in 1..loom.nemit :
       \A ps \in Stages : \E i \in CallsOf(m) :
         loom.calls[i][2] = ps[1] /\ loom.calls[i][3] = ps[2]
  /\ \A i \in 1..Len(loom.calls) :
       loom.calls[i][4] = "throw"
         => /\ \A d \in DeliveredIn(loom.calls[i][1]) :
                 ~HasMark(loom.delivered[d].e.trail, loom.calls[i][2], loom.calls[i][3])
            /\ (i < Len(loom.calls) /\ loom.calls[i + 1][1] = loom.calls[i][1])
                 => loom.calls[i + 1][5] = loom.calls[i][5]
            /\ (\A ps \in Stages : KindAt(ps[1], ps[2]) # "drop")
                 => DeliveredIn(loom.calls[i][1]) # {}

\* C29 witness: a main stage was given two events of the first emission,
\* changed one and threw on the other; both were delivered with the mark of
\* the same plugin's post stage, and a later emitted event was delivered too
C29_Witness ==
  /\ \E i \in CallsOf(1) :
       /\ loom.calls[i][4] = "throw"
       /\ loom.calls[i][3] = 2 /\ loom.calls[i][5] = 2
       /\ Cardinality(DeliveredIn(1)) = 2
       /\ \A d \in DeliveredIn(1) : HasMark(loom.delivered[d].e.trail, loom.calls[i][2], 3)
  /\ \E m \in 2..loom.nemit : DeliveredIn(m) # {}

\* C30: when a stage has thrown and plugin errors are not suppressed, an error
\* event has been delivered; when they are suppressed, none is.
C30_ErrorEventOnThrow ==
  /\ (Throws(loom.calls) > 0 /\ ~loom.suppressPluginErrors) => DeliveredOf("error") # {}
  /\ loom.suppressPluginErrors => DeliveredOf("error") = {}

\* ---- the parser between calls
\* nothing is buffered or held and no tag or fence is open
EmptyState(s) ==
  /\ s.mode = "text" /\ s.currentTag = <<>> /\ s.currentFence = <<>>
  /\ s.buffer = <<>> /\ s.textHold = <<>> /\ s.segHold = <<>> /\ s.fenceHold = <<>>

\* C31: a flush call made when nothing is buffered or held and no tag or fence
\* is open returns the flush event alone and leaves the parser state as it was.
C31_FlushOnEmptyIsIdle ==
  [][(nflushes' = nflushes + 1 /\ EmptyState(st))
       => /\ st' = st
          /\ events' = Append(events, Ev("flush", NoCtx))]_vars

\* C31 witness: after input was fed, the second of two flush calls in a row
\* returned the flush event alone
C31_Witness ==
  /\ nflushes = 2 /\ last = "flush" /\ input # <<>>
  /\ EmptyState(st)
  /\ Len(events) >= 3
  /\ events[Len(events)].type = "flush"
  /\ events[Len(events) - 1].type = "flush"

\* C32: every iteration of the feed loop either shortens the buffer or is the
\* last one, no step of a feed call lengthens the buffer, and an iteration
\* after which the loop goes on has shortened it; so a feed call makes at most
\* as many iterations as the buffer has characters, and returns.
C32_FeedTerminates ==
  /\ [](LET ShortensOrExits(r) ==
              /\ Len(r.st.buffer) <= Len(st.buffer)
              /\ r.brk \/ Len(r.st.buffer) < Len(st.buffer)
        IN (pc = "loop" /\ st.buffer # <<>>) => ShortensOrExits(LoopIter(st, opts)))
  /\ [][pc # "idle"
          => /\ Len(st'.buffer) <= Len(st.buffer)
             /\ (pc = "loop" /\ pc' = "loop") => Len(st'.buffer) < Len(st.buffer)]_vars

\* C32 witness: a < that begins no recognized tag was passed over one
\* character at a time, and the feed call returned with the buffer empty
C32_Witness ==
  /\ pc = "idle" /\ last = "feed"
  /\ st.mode = "text" /\ st.buffer = <<>>
  /\ input = <<LT, "b", GT>>
  /\ TextOf(events) = input

\* C33: when a feed call returns in in-tag mode, the buffer holds no more
\* characters than the closing tag has plus specMinParseLength.
C33_TagTailBounded ==
  (pc = "idle" /\ st.mode = "in-tag")
    => Len(st.buffer) <= Len(st.currentTag[1].name) + 3 + opts.specMinParseLength

\* C34: when a feed call returns in in-fence mode, the buffer holds at most
\* max(specMinParseLength - 1, fenceLen) characters.
C34_FenceTailBounded ==
  (pc = "idle" /\ st.mode = "in-fence")
    => Len(st.buffer) <= Max(opts.specMinParseLength - 1, st.currentFence[1].fenceLen)

\* C34 witness: a feed call returned inside a fence after emitting fence
\* content, with a tail of exactly that length kept
C34_Witness ==
  /\ pc = "idle" /\ last = "feed" /\ st.mode = "in-fence"
  /\ Len(st.buffer) = Max(opts.specMinParseLength - 1, st.currentFence[1].fenceLen)
  /\ \E i \in 1..Len(events) : events[i].type = "code-fence-chunk"

\* C35: when a feed call returns, textHold is shorter than bufferLength, and
\* outside word mode no other text is held (segHold is empty).
C35_TextHoldBelowBufferLength ==
  (pc = "idle" /\ last = "feed")
    => /\ Len(st.textHold) < opts.bufferLength
       /\ opts.emitUnit # "word" => st.segHold = <<>>

\* C35 witness: text that reached bufferLength ahead of a waiting candidate
\* was emitted during the feed call and the candidate stayed in the buffer
C35_Witness ==
  /\ pc = "idle" /\ last = "feed"
  /\ opts.bufferLength = 2 /\ opts.emitUnit = "token"
  /\ input = <<"x", "x", LT, SL, "a">>
  /\ st.buffer = <<LT, SL, "a">> /\ st.textHold = <<>>
  /\ TextOf(events) = <<"x", "x">>

\* C36: when flush has returned, the parser is in the state it had after
\* construction: text mode, no current tag or fence, an empty context, and
\* buffer, textHold, segHold and fenceHold empty.
C36_FlushLeavesInitialState ==
  (pc = "idle" /\ last = "flush") => st = InitState

\* the input begins with a < that no > ever closes, and a later line of it is
\* a complete fence opening line
CandidateThenFence(s) ==
  /\ Len(s) >= 6 /\ s[1] = LT
  /\ \A i \in 1..Len(s) : s[i] # GT
  /\ \E k \in 2..(Len(s) - 4) : SubSeq(s, k, k + 4) = <<NL, BT, BT, BT, NL>>

\* C37: when the input begins with a < candidate that stays unresolved and a
\* later line is a complete fence opening line, the feed calls have produced
\* a code-fence-start event.
C37_FenceAfterCandidateRecognized ==
  (pc = "idle" /\ last = "feed" /\ CandidateThenFence(input))
    => \E i \in 1..Len(events) : events[i].type = "code-fence-start"

\* C38: a feed call with the empty chunk returns no events and leaves the
\* parser state as it was.
C38_EmptyFeedIsIdle ==
  [][(nfeeds' = nfeeds + 1 /\ input' = input) => (st' = st /\ events' = events)]_vars

\* C38 witness: a feed call emitted text and left a candidate waiting in the
\* buffer, and the empty chunk was fed after it (the subscriber got text,
\* buffer-released, and buffer-released again for the empty feed)
C38_Witness ==
  /\ last = "feed" /\ nfeeds = 2 /\ nflushes = 0
  /\ opts.emitUnit = "token" /\ opts.bufferLength = 2
  /\ input = <<"x", "x", LT, SL, "a">>
  /\ st.buffer = <<LT, SL, "a">>
  /\ Len(loom.delivered) = 3
  /\ loom.delivered[1].e.type = "text"
  /\ loom.delivered[2].e.type = "buffer-released"
  /\ loom.delivered[3].e.type = "buffer-released"

\* ---- reading what the iterator handed out
\* the results of next() calls that carried an event, in the order given
Handed == SelectSeq(loom.results, LAMBDA r : ~r.done)

\* C39: the iterator's queue and the waiting next() calls are never both
\* non-empty; next() calls are served in the order they were made; and the
\* events handed to next() calls, followed by the queued ones, are the events
\* delivered to the subscriber, each once and in delivery order.
C39_IteratorFifo ==
  /\ ~(loom.eventQueue # <<>> /\ loom.waitingResolvers # <<>>)
  /\ \A i, j \in 1..Len(loom.results) : i < j => loom.results[i].call < loom.results[j].call
  /\ [i \in 1..Len(Handed) |-> Handed[i].value[1]] \o loom.eventQueue
       = [i \in 1..Len(loom.delivered) |-> loom.delivered[i].e]

\* C40: a timer callback that runs right after dispose delivers nothing to
\* the subscriber and gives nothing to the iterator.
C40_NothingAfterDispose ==
  [][(last = "dispose" /\ last' = "timer")
       => /\ loom'.delivered = loom.delivered
          /\ loom'.eventQueue = loom.eventQueue
          /\ loom'.results = loom.results]_vars

====
